---- MODULE Spec2Model ----
(***************************************************************************)
(* A model of the streaming inference session (InferencePredictor), the    *)
(* batch collator (collate_fn) and the transcript mapping of               *)
(* PPASRDataset.__getitem__ of PPASR.                                      *)
(*                                                                         *)
(* Three specifications share the module:                                  *)
(*   Spec         the session: predict, predict_chunk, reset_stream        *)
(*   SpecCollate  collate_fn applied to a list of samples                  *)
(*   SpecDataset  the transcript-to-index mapping of __getitem__           *)
(***************************************************************************)
EXTENDS Integers, Sequences, FiniteSets, Bags, TLC

VARIABLES
    \* ---- InferencePredictor (inference_predictor.py) ----
    use_model,                  \* self.use_model
    output_state_h,             \* self.output_state_h : None or a tensor
    output_state_c,             \* self.output_state_c : None or a tensor
    speech_data_handle,         \* contents of the 'speech' input handle
    speech_lengths_handle,      \* contents of the 'speech_lengths' input handle
    init_state_h_box_handle,    \* contents of the 'init_state_h_box' input handle
    init_state_c_box_handle,    \* contents of the 'init_state_c_box' input handle
    ret,                        \* what the last call returned, or that it raised
    last_op,                    \* the last method called and how the engine behaved
    calls,                      \* number of predict / predict_chunk calls made
    run_count,                  \* number of self.predictor.run() invocations
    chunk_hist,                 \* what the model returned on the last predict_chunk
                                \* since the last reset_stream
    \* ---- collate_fn (reader.py, data.py) ----
    batch,                      \* the list of samples handed to collate_fn
    collated,                   \* what collate_fn returned (or that it raised)
    \* ---- PPASRDataset.__getitem__ ----
    vocab_labels,               \* the list read from dict_path
    text,                       \* the transcript string of the manifest line
    item                        \* the transcript __getitem__ returned

sessionVars == <<use_model, output_state_h, output_state_c, speech_data_handle,
                 speech_lengths_handle, init_state_h_box_handle,
                 init_state_c_box_handle, ret, last_op, calls, run_count, chunk_hist>>
collateVars == <<batch, collated>>
datasetVars == <<vocab_labels, text, item>>
vars == <<sessionVars, collateVars, datasetVars>>

----------------------------------------------------------------------------
(* Bounds *)

MaxBatch == 2        \* batch sizes of speech / chunks are 1..MaxBatch
MaxCalls == 3        \* predict / predict_chunk calls in one behaviour
MaxBatchLen == 2     \* samples in the list handed to collate_fn
MaxF == 2            \* feature dimensionality of a sample is 1..MaxF
MaxT == 2            \* frames of a sample are 1..MaxT
MaxLabelLen == 1     \* transcript length of a sample is 0..MaxLabelLen
MaxStrLen == 2       \* characters of a transcript string (besides "hello")

----------------------------------------------------------------------------
(* Python values *)

\* Python's None and a present value: <<>> and <<v>>.
None == <<>>
Some(v) == <<v>>
Val(o) == o[1]

\* encoder_conf.num_rnn_layers and encoder_conf.rnn_size of the configuration.
num_rnn_layers == 2
rnn_size == 3

\* np.zeros(shape=(num_rnn_layers, b, rnn_size)).  A tensor is its shape and
\* its content; the content of an all-zero tensor is <<>>.
Zeros(b) == [shape |-> <<num_rnn_layers, b, rnn_size>>, data |-> <<>>]

\* The batch size of a recurrent-state tensor: shape[1].
StateBatch(t) == t.shape[2]

UseModels == {"deepspeech2_online", "deepspeech2"}
SpeechData == {"u", "v"}
LensData == {"m", "n"}

\* speech / x_chunk : only shape[0] (the batch size) and the content matter
\* to the session.
Speeches == [batch : 1..MaxBatch, data : SpeechData]

----------------------------------------------------------------------------
(* The inference engine: self.predictor.run() and its output handles.      *)
(* The model is an opaque deterministic function of the input handles: its *)
(* outputs are the free terms over its inputs.                             *)

\* What the input handles hold when run() is called.
Fed == [speech |-> speech_data_handle, lens |-> speech_lengths_handle,
        h |-> init_state_h_box_handle, c |-> init_state_c_box_handle]

StateData(o) == IF o = None THEN <<"absent">> ELSE Val(o).data

ModelTerm(name, fed) ==
    <<name, Val(fed.speech).data, Val(fed.lens), StateData(fed.h), StateData(fed.c)>>

\* output_names[0] and output_names[1]
ModelProbs(fed) == [batch |-> Val(fed.speech).batch, data |-> ModelTerm("probs", fed)]
ModelLens(fed) == [batch |-> Val(fed.speech).batch, data |-> ModelTerm("lens", fed)]
\* output_names[2] and output_names[3]; ob is the batch size of the returned state
ModelStateH(fed, ob) ==
    [shape |-> <<num_rnn_layers, ob, rnn_size>>, data |-> ModelTerm("state_h", fed)]
ModelStateC(fed, ob) ==
    [shape |-> <<num_rnn_layers, ob, rnn_size>>, data |-> ModelTerm("state_c", fed)]

\* The batch size of a state the engine returns.  When the chunk and the state
\* it is fed disagree on the batch size the engine's result is not defined by
\* this repository: either size may come back (or the call may raise).
OutBatches(fed) ==
    {Val(fed.speech).batch} \cup
    (IF fed.h = None THEN {} ELSE {StateBatch(Val(fed.h))})

\* How the engine behaves on one call: it returns, run() raises, or an output
\* cannot be read (output_names too short, copy_to_cpu raising).
\* "output_unreadable": an output read before output_state_h is assigned fails
\* (lines 94-95; lines 123-127).  "state_c_unreadable": lines 129-130 fail.
PredictOutcomes == {"ok", "run_raises", "output_unreadable"}
ChunkOutcomes == {"ok", "run_raises", "output_unreadable", "state_c_unreadable"}

\* A call that raised, and the exception it raised.  The engine's own
\* exceptions propagate unchanged: no method of the class catches anything.
Raised(kind) == <<"raised", kind>>
HasRaised(r) == r # None /\ r[1] = "raised"
Returned(r) == r # None /\ r[1] = "ok"

----------------------------------------------------------------------------
(* InferencePredictor *)

Streaming == use_model = "deepspeech2_online"

\* __init__
SessionInit ==
    /\ use_model \in UseModels
    /\ output_state_h = None
    /\ output_state_c = None
    /\ speech_data_handle = None
    /\ speech_lengths_handle = None
    /\ init_state_h_box_handle = None
    /\ init_state_c_box_handle = None
    /\ ret = None
    /\ last_op = [op |-> "__init__", outcome |-> "ok", prev |-> "__init__"]
    /\ calls = 0
    /\ run_count = 0
    /\ chunk_hist = [kind |-> "none", h |-> None, c |-> None]

\* Mutant: predict feeds the held state when there is one.
PredictFedState_Held(speech) ==
    IF Streaming
    THEN (IF output_state_h = None THEN Some(Zeros(speech.batch)) ELSE output_state_h)
    ELSE init_state_h_box_handle

\* The recurrent state predict puts in the init_state handles (lines 81-88).
PredictFedState(speech) ==
    IF Streaming THEN Some(Zeros(speech.batch)) ELSE init_state_h_box_handle

\* The session state predict leaves behind: predict assigns neither field.
PredictStateH == output_state_h
PredictStateC == output_state_c

predict(speech, speech_lengths, o) ==
    /\ calls < MaxCalls
    /\ speech_data_handle' = Some(speech)
    /\ speech_lengths_handle' = Some(speech_lengths)
    /\ init_state_h_box_handle' = PredictFedState(speech)
    /\ init_state_c_box_handle' =
          IF Streaming THEN PredictFedState(speech) ELSE init_state_c_box_handle
    /\ run_count' = run_count + 1
    /\ ret' = IF o = "ok" THEN <<"ok", ModelProbs(Fed')>> ELSE Raised("EngineError")
    /\ output_state_h' = PredictStateH
    /\ output_state_c' = PredictStateC
    /\ last_op' = [op |-> "predict", outcome |-> o, prev |-> last_op.op]
    /\ calls' = calls + 1
    /\ UNCHANGED <<use_model, chunk_hist>>

\* Mutant: every chunk starts from zero state.
LazyStateH_AlwaysZero(x_chunk) ==
    IF Streaming THEN Some(Zeros(x_chunk.batch)) ELSE output_state_h

\* Lines 105-112: the state is created lazily, keyed on output_state_h alone.
LazyInit == Streaming /\ output_state_h = None
LazyStateH(x_chunk) == IF LazyInit THEN Some(Zeros(x_chunk.batch)) ELSE output_state_h
LazyStateC(x_chunk) == IF LazyInit THEN Some(Zeros(x_chunk.batch)) ELSE output_state_c

\* Lines 127-130: output_state_h is assigned as soon as its output is read,
\* output_state_c after that.
CommitStateH(o, new_h, h1) ==
    IF o \in {"ok", "state_c_unreadable"} THEN Some(new_h) ELSE h1
CommitStateC(o, new_c, c1) ==
    IF o = "ok" THEN Some(new_c) ELSE c1

predict_chunk(x_chunk, x_chunk_lens, o) ==
    /\ calls < MaxCalls
    /\ speech_data_handle' = Some(x_chunk)
    /\ speech_lengths_handle' = Some(x_chunk_lens)
    /\ init_state_h_box_handle' =
          IF Streaming THEN LazyStateH(x_chunk) ELSE init_state_h_box_handle
    /\ init_state_c_box_handle' =
          IF Streaming /\ LazyStateC(x_chunk) # None
          THEN LazyStateC(x_chunk) ELSE init_state_c_box_handle
    /\ IF Streaming /\ LazyStateC(x_chunk) = None
       THEN \* line 116: None has no shape; the call raises before run()
            /\ run_count' = run_count
            /\ ret' = Raised("AttributeError")
            /\ output_state_h' = LazyStateH(x_chunk)
            /\ output_state_c' = LazyStateC(x_chunk)
            /\ chunk_hist' = [kind |-> "failed", h |-> None, c |-> None]
            /\ last_op' = [op |-> "predict_chunk", outcome |-> "state_c_missing",
                            prev |-> last_op.op]
       ELSE /\ run_count' = run_count + 1
            /\ \E ob \in (IF o \in {"ok", "state_c_unreadable"}
                         THEN OutBatches(Fed') ELSE {Val(speech_data_handle').batch}) :
                 /\ ret' = IF o = "ok"
                           THEN <<"ok", ModelProbs(Fed'), ModelLens(Fed')>>
                           ELSE Raised("EngineError")
                 /\ output_state_h' =
                       CommitStateH(o, ModelStateH(Fed', ob), LazyStateH(x_chunk))
                 /\ output_state_c' =
                       CommitStateC(o, ModelStateC(Fed', ob), LazyStateC(x_chunk))
                 /\ chunk_hist' =
                       IF o = "ok"
                       THEN [kind |-> "ok", h |-> Some(ModelStateH(Fed', ob)),
                             c |-> Some(ModelStateC(Fed', ob))]
                       ELSE [kind |-> "failed", h |-> None, c |-> None]
            /\ last_op' = [op |-> "predict_chunk", outcome |-> o, prev |-> last_op.op]
    /\ calls' = calls + 1
    /\ UNCHANGED use_model

\* Mutant: reset_stream clears output_state_h only.
ResetStateC_Kept == output_state_c

\* Mutant: reset_stream clears nothing.
reset_stream_KeepsState ==
    /\ last_op' = [op |-> "reset_stream", outcome |-> "ok", prev |-> last_op.op]
    /\ chunk_hist' = [kind |-> "none", h |-> None, c |-> None]
    /\ UNCHANGED <<use_model, output_state_h, output_state_c, speech_data_handle,
                   speech_lengths_handle, init_state_h_box_handle,
                   init_state_c_box_handle, ret, calls, run_count>>

\* Lines 134-136.
ResetStateH == None
ResetStateC == None

reset_stream ==
    /\ output_state_h' = ResetStateH
    /\ output_state_c' = ResetStateC
    /\ last_op' = [op |-> "reset_stream", outcome |-> "ok", prev |-> last_op.op]
    /\ chunk_hist' = [kind |-> "none", h |-> None, c |-> None]
    /\ UNCHANGED <<use_model, speech_data_handle, speech_lengths_handle,
                   init_state_h_box_handle, init_state_c_box_handle, ret,
                   calls, run_count>>

----------------------------------------------------------------------------
(* collate_fn (data_utils/reader.py and utils/data.py: the same code) *)

\* A feature is a matrix of shape (F, T): a sequence of F rows of T values.
\* Cell (f, t) of every feature holds a non-zero value that tells the cell.
Feature(F, T) == [f \in 1..F |-> [t \in 1..T |-> 10 * f + t]]
Features == {Feature(F, T) : F \in 1..MaxF, T \in 1..MaxT}

\* A transcript is a sequence of vocabulary indices.  __getitem__ never
\* yields index 0 (see TranscriptOf), so the indices here are positive.
LabelIds == {1, 2}
Transcripts == UNION {[1..n -> LabelIds] : n \in 0..MaxLabelLen}

Samples == [feature : Features, transcript : Transcripts]
Batches == UNION {[1..n -> Samples] : n \in 0..MaxBatchLen}

\* sample[0].shape[0], sample[0].shape[1], len(sample[1])
FreqOf(sample) == Len(sample.feature)
SeqLengthOf(sample) == Len(sample.feature[1])
LabelLengthOf(sample) == Len(sample.transcript)

\* sorted(seq, key=..., reverse=True) over a list of <<key, value>> pairs:
\* descending by key, equal keys keeping their order (the sort is stable).
InsertReverse(p, s) ==
    LET n == Cardinality({i \in 1..Len(s) : s[i][1] >= p[1]})
    IN  SubSeq(s, 1, n) \o <<p>> \o SubSeq(s, n + 1, Len(s))

RECURSIVE SortedReverse(_)
SortedReverse(pairs) ==
    IF pairs = <<>> THEN <<>>
    ELSE InsertReverse(pairs[Len(pairs)],
                       SortedReverse(SubSeq(pairs, 1, Len(pairs) - 1)))

\* batch = sorted(batch, key=lambda sample: sample[0].shape[1], reverse=True)
SortedByAudio(b) ==
    LET s == SortedReverse([i \in 1..Len(b) |-> <<SeqLengthOf(b[i]), b[i]>>])
    IN  [i \in 1..Len(b) |-> s[i][2]]

\* batch_temp = sorted(batch, key=lambda sample: len(sample[1]), reverse=True)
SortedByLabel(b) ==
    LET s == SortedReverse([i \in 1..Len(b) |-> <<LabelLengthOf(b[i]), b[i]>>])
    IN  [i \in 1..Len(b) |-> s[i][2]]

\* Mutant: the array is not zero-filled; the cells after the data repeat it.
PadRow_NotZeroed(r, width) ==
    [t \in 1..width |-> IF t <= Len(r) THEN r[t] ELSE (IF r = <<>> THEN 1 ELSE r[Len(r)])]

\* One row of a zero array with the values r written in its first Len(r) cells.
PadRow(r, width) == [t \in 1..width |-> IF t <= Len(r) THEN r[t] ELSE 0]

\* inputs[x, :, :seq_length] = tensor[:, :] : numpy writes a tensor of F rows
\* into freq_size rows when F = freq_size, repeats its row when F = 1, and
\* raises ValueError otherwise.
Assignable(tensor, freq_size) == Len(tensor) = freq_size \/ Len(tensor) = 1
PadInput(tensor, freq_size, max_audio_length) ==
    [f \in 1..freq_size |->
        PadRow(tensor[IF Len(tensor) = 1 THEN 1 ELSE f], max_audio_length)]

\* Mutant: the labels are taken from the list sorted by label length.
RowSource_Temp(sorted_batch, batch_temp) ==
    [x \in 1..Len(sorted_batch) |->
        [feature |-> sorted_batch[x].feature, transcript |-> batch_temp[x].transcript]]

\* The list whose x-th sample is written to row x (sample = batch[x]).
RowSource(sorted_batch, batch_temp) == sorted_batch

collate_fn(b) ==
    IF b = <<>> THEN Raised("IndexError")          \* batch[0] of an empty list
    ELSE
    LET sorted_batch == SortedByAudio(b)
        freq_size == FreqOf(sorted_batch[1])
        max_audio_length == SeqLengthOf(sorted_batch[1])
        batch_size == Len(sorted_batch)
        batch_temp == SortedByLabel(sorted_batch)
        max_label_length == LabelLengthOf(batch_temp[1])
        src == RowSource(sorted_batch, batch_temp)
    IN  IF \E x \in 1..batch_size : ~Assignable(src[x].feature, freq_size)
        THEN Raised("ValueError")
        ELSE <<"ok",
               [inputs |-> [x \in 1..batch_size |->
                               PadInput(src[x].feature, freq_size, max_audio_length)],
                labels |-> [x \in 1..batch_size |->
                               PadRow(src[x].transcript, max_label_length)],
                input_lens |-> [x \in 1..batch_size |-> SeqLengthOf(src[x])],
                label_lens |-> [x \in 1..batch_size |-> Len(src[x].transcript)]]>>

CollateInit == batch \in Batches /\ collated = None

Collate ==
    /\ collated = None
    /\ collated' = collate_fn(batch)
    /\ UNCHANGED batch

----------------------------------------------------------------------------
(* PPASRDataset (data_utils/reader.py and utils/data.py: the same mapping) *)

Chars == {"h", "e", "l", "o", "i"}

\* The list read from dict_path: symbols, each at most once.
VocabLists ==
    {v \in UNION {[1..n -> Chars] : n \in 0..Cardinality(Chars)} :
        \A i, j \in 1..Len(v) : v[i] = v[j] => i = j}

\* Transcript strings: every string of at most MaxStrLen characters, and "hello".
Texts == UNION {[1..n -> Chars] : n \in 0..MaxStrLen} \cup {<<"h", "e", "l", "l", "o">>}

\* self.vocabulary = dict([(labels[i], i) for i in range(len(labels))]), and
\* self.vocabulary.get(x): the index of x, counted from 0, or None.
VocabularyGet(labels, x) ==
    IF \E i \in 1..Len(labels) : labels[i] = x
    THEN Some((CHOOSE i \in 1..Len(labels) :
                  labels[i] = x /\ \A j \in 1..Len(labels) : labels[j] = x => j <= i) - 1)
    ELSE None

\* bool(v) of Python for v None or an int: None and 0 are false.
Truthy(v) == v # None /\ Val(v) # 0

\* list(filter(None, [self.vocabulary.get(x) for x in transcript]))
TranscriptOf(labels, transcript) ==
    LET got == [k \in 1..Len(transcript) |-> VocabularyGet(labels, transcript[k])]
        kept == SelectSeq(got, Truthy)
    IN  [k \in 1..Len(kept) |-> Val(kept[k])]

DatasetInit == vocab_labels \in VocabLists /\ text \in Texts /\ item = None

GetItem ==
    /\ item = None
    /\ item' = Some(TranscriptOf(vocab_labels, text))
    /\ UNCHANGED <<vocab_labels, text>>

----------------------------------------------------------------------------
(* Idle values of the parts a specification does not use *)

CollateIdle == batch = <<>> /\ collated = None
DatasetIdle == vocab_labels = <<>> /\ text = <<>> /\ item = None
SessionIdle ==
    /\ use_model = "deepspeech2_online"
    /\ output_state_h = None /\ output_state_c = None
    /\ speech_data_handle = None /\ speech_lengths_handle = None
    /\ init_state_h_box_handle = None /\ init_state_c_box_handle = None
    /\ ret = None /\ last_op = [op |-> "__init__", outcome |-> "ok", prev |-> "__init__"]
    /\ calls = 0 /\ run_count = 0
    /\ chunk_hist = [kind |-> "none", h |-> None, c |-> None]

----------------------------------------------------------------------------
(* The session *)

Init == SessionInit /\ CollateIdle /\ DatasetIdle

Predict ==
    \E speech \in Speeches, speech_lengths \in LensData, o \in PredictOutcomes :
        predict(speech, speech_lengths, o) /\ UNCHANGED <<collateVars, datasetVars>>

PredictChunk ==
    \E x_chunk \in Speeches, x_chunk_lens \in LensData, o \in ChunkOutcomes :
        predict_chunk(x_chunk, x_chunk_lens, o) /\ UNCHANGED <<collateVars, datasetVars>>

ResetStream == reset_stream /\ UNCHANGED <<collateVars, datasetVars>>

Next == Predict \/ PredictChunk \/ ResetStream

Spec == Init /\ [][Next]_vars

----------------------------------------------------------------------------
(* The collator *)

InitCollate == CollateInit /\ SessionIdle /\ DatasetIdle

NextCollate == Collate /\ UNCHANGED <<sessionVars, datasetVars>>

SpecCollate == InitCollate /\ [][NextCollate]_vars

----------------------------------------------------------------------------
(* The dataset's transcript mapping *)

InitDataset == DatasetInit /\ SessionIdle /\ CollateIdle

NextDataset == GetItem /\ UNCHANGED <<sessionVars, collateVars>>

SpecDataset == InitDataset /\ [][NextDataset]_vars

----------------------------------------------------------------------------
(* Claims about the session, checked under Spec *)

Idle == output_state_h = None /\ output_state_c = None
Active == output_state_h # None /\ output_state_c # None

\* The step just taken is a call of the named method.
ChunkStep == last_op'.op = "predict_chunk" /\ calls' = calls + 1
PredictStep == last_op'.op = "predict" /\ calls' = calls + 1
ResetStep == last_op'.op = "reset_stream" /\ last_op'.prev = last_op.op
                /\ calls' = calls

\* The chunk and lengths of the call just made.
CalledChunk == Val(speech_data_handle)
CalledLens == Val(speech_lengths_handle)

\* C1: the session starts Idle (both fields None); a predict_chunk call that
\* returns ends in Active, from Idle and from Active alike; reset_stream ends
\* in Idle, and on an Idle session it changes neither field; so after any
\* history a second reset_stream in a row leaves what the first left, both
\* fields None.
C1_StateMachine ==
    /\ Idle
    /\ [][(ChunkStep /\ Returned(ret')) => Active']_vars
    /\ [][ResetStep => (Idle' /\ (Idle => UNCHANGED <<output_state_h, output_state_c>>))]_vars
    /\ [](last_op.op = "reset_stream" => Idle)

\* reset_stream called twice in a row on a session that had processed a chunk.
C1_Witness ==
    /\ last_op.op = "reset_stream" /\ last_op.prev = "reset_stream"
    /\ Returned(ret) /\ Len(ret) = 3
    /\ Idle

\* C2: on a streaming model, a predict_chunk call that is the first since
\* construction or reset_stream feeds the model all-zero state of shape
\* (num_layers, chunk.shape[0], hidden_size); a call that follows a returned
\* predict_chunk call feeds exactly the (state_h, state_c) the model returned
\* on that call, whatever predict calls came between; and after a call that
\* returns the session holds exactly the state the model returned on it.
C2_StateThreading ==
    [][(Streaming /\ ChunkStep /\ run_count' = run_count + 1) =>
          /\ chunk_hist.kind = "none" =>
                /\ init_state_h_box_handle' = Some(Zeros(CalledChunk'.batch))
                /\ init_state_c_box_handle' = Some(Zeros(CalledChunk'.batch))
          /\ chunk_hist.kind = "ok" =>
                /\ init_state_h_box_handle' = chunk_hist.h
                /\ init_state_c_box_handle' = chunk_hist.c
          /\ Returned(ret') =>
                /\ output_state_h' = chunk_hist'.h
                /\ output_state_c' = chunk_hist'.c
                /\ Val(output_state_h').data = ModelTerm("state_h", Fed')
                /\ Val(output_state_c').data = ModelTerm("state_c", Fed')
    ]_vars

\* A third call: a predict_chunk that was fed the state an earlier
\* predict_chunk returned, itself fed a returned state.
C2_Witness ==
    /\ Streaming /\ last_op.op = "predict_chunk" /\ last_op.outcome = "ok"
    /\ init_state_h_box_handle # None
    /\ Val(init_state_h_box_handle).data # <<>>
    /\ Val(init_state_h_box_handle).data[4] # <<>>
    /\ output_state_h = chunk_hist.h

\* What a predict_chunk call on an Idle session is fed, as a function of the
\* chunk and its lengths alone.
FreshFed(x_chunk, x_chunk_lens) ==
    [speech |-> Some(x_chunk), lens |-> Some(x_chunk_lens),
     h |-> IF Streaming THEN Some(Zeros(x_chunk.batch)) ELSE None,
     c |-> IF Streaming THEN Some(Zeros(x_chunk.batch)) ELSE None]

\* C3: a predict_chunk call made immediately after reset_stream that returns,
\* returns probabilities and output lengths, and leaves a session state, that
\* are a function of the chunk and its lengths alone: the history before the
\* reset_stream does not show in them.
C3_StateIsolation ==
    (last_op.op = "predict_chunk" /\ last_op.prev = "reset_stream" /\ Returned(ret)) =>
        /\ ret = <<"ok", ModelProbs(FreshFed(CalledChunk, CalledLens)),
                   ModelLens(FreshFed(CalledChunk, CalledLens))>>
        /\ output_state_h =
              Some(ModelStateH(FreshFed(CalledChunk, CalledLens), CalledChunk.batch))
        /\ output_state_c =
              Some(ModelStateC(FreshFed(CalledChunk, CalledLens), CalledChunk.batch))

\* A chunk processed right after reset_stream on a session that had made
\* two calls before.
C3_Witness ==
    /\ last_op.op = "predict_chunk" /\ last_op.prev = "reset_stream"
    /\ Returned(ret) /\ calls = 3 /\ Streaming

\* C4: predict invokes the model exactly once and leaves output_state_h and
\* output_state_c as they were, on an Idle and on an Active session, whether
\* the call returns or raises; on a streaming model the state it feeds is
\* all-zero, of the batch size of its input, not the held state.
C4_PredictFrame ==
    [][PredictStep =>
          /\ UNCHANGED <<output_state_h, output_state_c>>
          /\ run_count' = run_count + 1
          /\ Streaming =>
                /\ init_state_h_box_handle' = Some(Zeros(CalledChunk'.batch))
                /\ init_state_c_box_handle' = Some(Zeros(CalledChunk'.batch))
    ]_vars

\* predict returned on an Active streaming session holding non-zero state.
C4_Witness ==
    /\ last_op.op = "predict" /\ last_op.outcome = "ok" /\ Streaming
    /\ Active /\ Val(output_state_h).data # <<>>

\* C5: on a streaming model, a predict_chunk call on an Active session whose
\* chunk's batch size is not the batch size of the held state raises
\* StateShapeMismatchError, and the model is not invoked.
C5_BatchMismatchRejected ==
    [][(Streaming /\ ChunkStep /\ Active
          /\ StateBatch(Val(output_state_h)) # CalledChunk'.batch) =>
          /\ ret' = Raised("StateShapeMismatchError")
          /\ run_count' = run_count
    ]_vars

\* C6: a predict or predict_chunk call that raises leaves output_state_h and
\* output_state_c as they were before the call.
C6_FailureKeepsState ==
    [][((ChunkStep \/ PredictStep) /\ HasRaised(ret')) =>
          UNCHANGED <<output_state_h, output_state_c>>
    ]_vars

----------------------------------------------------------------------------
(* Claims about collate_fn, checked under SpecCollate *)

Out == collated[2]
BatchSize == Len(Out.inputs)

\* Row i of the returned batch holds the sample: its true lengths, its
\* transcript in the first label_lens[i] cells of the label row and its
\* feature in the first input_lens[i] columns of its own F rows.
RowHolds(i, sample) ==
    /\ Out.input_lens[i] = SeqLengthOf(sample)
    /\ Out.label_lens[i] = LabelLengthOf(sample)
    /\ Len(Out.labels[i]) >= LabelLengthOf(sample)
    /\ SubSeq(Out.labels[i], 1, LabelLengthOf(sample)) = sample.transcript
    /\ Len(Out.inputs[i]) >= FreqOf(sample)
    /\ \A f \in 1..FreqOf(sample) :
          /\ Len(Out.inputs[i][f]) >= SeqLengthOf(sample)
          /\ SubSeq(Out.inputs[i][f], 1, SeqLengthOf(sample)) = sample.feature[f]

\* C7: for a non-empty input list, row i of the returned batch holds the
\* data and the true lengths of the i-th sample of the input list.
C7_InputOrderKept ==
    Returned(collated) =>
        /\ BatchSize = Len(batch)
        /\ \A i \in 1..Len(batch) : RowHolds(i, batch[i])

\* C8: in every returned batch and every row i, the cells of inputs[i] from
\* column input_lens[i] on and the cells of labels[i] from label_lens[i] on
\* are zero, input_lens[i] <= T_max and label_lens[i] <= L_max, where T_max
\* (the width of inputs) is the largest input length and L_max (the width of
\* labels) the largest label length.
C8_PaddingCorrect ==
    Returned(collated) =>
        /\ \A i \in 1..BatchSize :
              /\ \A f \in 1..Len(Out.inputs[i]) :
                    /\ Out.input_lens[i] <= Len(Out.inputs[i][f])
                    /\ \A t \in (Out.input_lens[i] + 1)..Len(Out.inputs[i][f]) :
                          Out.inputs[i][f][t] = 0
                    /\ \E j \in 1..BatchSize : Out.input_lens[j] = Len(Out.inputs[i][f])
              /\ Out.label_lens[i] <= Len(Out.labels[i])
              /\ \A t \in (Out.label_lens[i] + 1)..Len(Out.labels[i]) :
                    Out.labels[i][t] = 0
              /\ \E j \in 1..BatchSize : Out.label_lens[j] = Len(Out.labels[i])
              /\ \A j \in 1..BatchSize :
                    /\ Out.input_lens[j] <= Len(Out.inputs[i][1])
                    /\ Out.label_lens[j] <= Len(Out.labels[i])

\* A batch of two whose shorter feature is padded and whose empty transcript
\* gives an all-zero label row of positive width.
C8_Witness ==
    /\ Returned(collated) /\ BatchSize = 2
    /\ \E i \in 1..2 : Out.input_lens[i] < Len(Out.inputs[i][1])
    /\ \E i \in 1..2 : Out.label_lens[i] = 0 /\ Len(Out.labels[i]) > 0

\* The permutations of 1..n, and a list rearranged by one.
Perms(n) == {p \in [1..n -> 1..n] : \A i, j \in 1..n : p[i] = p[j] => i = j}
Permuted(b, p) == [i \in 1..Len(b) |-> b[p[i]]]

\* The rows of a returned batch, as a bag.
RowsOf(r) ==
    LET row(i) == [input |-> r[2].inputs[i], label |-> r[2].labels[i],
                   input_len |-> r[2].input_lens[i], label_len |-> r[2].label_lens[i]]
        rows == {row(i) : i \in 1..Len(r[2].inputs)}
    IN  [x \in rows |-> Cardinality({i \in 1..Len(r[2].inputs) : row(i) = x})]

\* C9: a returned batch has one row per input sample, each row holding the
\* feature, the transcript and both lengths of one and the same sample, no
\* sample lost and none used twice; and collating any permutation of the
\* input list returns the same bag of rows.
C9_SamplesKept ==
    Returned(collated) =>
        /\ BatchSize = Len(batch)
        /\ \E p \in Perms(Len(batch)) : \A i \in 1..Len(batch) : RowHolds(i, batch[p[i]])
        /\ \A p \in Perms(Len(batch)) :
              Returned(collate_fn(Permuted(batch, p))) =>
                  RowsOf(collate_fn(Permuted(batch, p))) = RowsOf(collated)

\* A batch of two samples of one F where the sample with the longer feature
\* has the shorter transcript: the two sorts order them in opposite ways.
C9_Witness ==
    /\ Returned(collated) /\ Len(batch) = 2
    /\ FreqOf(batch[1]) = FreqOf(batch[2])
    /\ SeqLengthOf(batch[1]) < SeqLengthOf(batch[2])
    /\ LabelLengthOf(batch[1]) > LabelLengthOf(batch[2])

----------------------------------------------------------------------------
(* Claims about PPASRDataset.__getitem__, checked under SpecDataset *)

\* The vocabulary indices of the characters of a string, in order, the
\* characters absent from the vocabulary dropped and nothing else.
RECURSIVE IndicesInOrder(_, _)
IndicesInOrder(labels, str) ==
    IF str = <<>> THEN <<>>
    ELSE LET rest == IndicesInOrder(labels, Tail(str))
         IN  IF \E i \in 1..Len(labels) : labels[i] = Head(str)
             THEN <<(CHOOSE i \in 1..Len(labels) : labels[i] = Head(str)) - 1>> \o rest
             ELSE rest

\* C10: the transcript __getitem__ returns is the sequence of vocabulary
\* indices of the string's characters in order, dropping exactly the
\* characters absent from the vocabulary: with the vocabulary h, e, l, o,
\* "hello" gives 0, 1, 2, 2, 3 and "hi" gives 0.
C10_TranscriptMapping ==
    item # None =>
        /\ Val(item) = IndicesInOrder(vocab_labels, text)
        /\ (vocab_labels = <<"h", "e", "l", "o">> /\ text = <<"h", "e", "l", "l", "o">>)
              => Val(item) = <<0, 1, 2, 2, 3>>
        /\ (vocab_labels = <<"h", "e", "l", "o">> /\ text = <<"h", "i">>)
              => Val(item) = <<0>>

\* Two samples of the input list differ in feature dimensionality F.
MixedF == \E i, j \in 1..Len(batch) : FreqOf(batch[i]) # FreqOf(batch[j])

\* C11: whenever two samples of the input list have different feature
\* dimensionality F, collate_fn fails and returns no batch, whichever the
\* two F values (F = 1 included) and whichever sample is the longest.  (The
\* claim names the exception ShapeMismatchError; any exception is taken
\* here for the failure.)
C11_MixedFRejected ==
    (MixedF /\ collated # None) => HasRaised(collated)

====
